---- MODULE Spec2Model ----
(***************************************************************************)
(* Model of src/top_open_subtitles_sentences.py: the chunked frequency     *)
(* counting pipeline (sentence pass, word pass, noise filter, variant      *)
(* collapsing, ranking) and the multi-language driver.                     *)
(*                                                                         *)
(* A string is a sequence of characters; a character is a one-element      *)
(* TLA+ string.  Characters outside ASCII are written by code point:       *)
(*   "u00E9" e-acute      "u00DF" sharp s       "u044F" Cyrillic ya        *)
(*   "u0663" Arabic-Indic digit three           "u00BF" inverted "?"       *)
(*   "u00A1" inverted "!"                       "u2013" en dash            *)
(*   "u2019" right single quote   "u0027" apostrophe   "u0060" backtick    *)
(* A Counter / dict / DataFrame is a sequence of rows [key, count] in      *)
(* insertion (row) order, keys unique.                                     *)
(***************************************************************************)
EXTENDS Integers, Sequences, FiniteSets, TLC

-----------------------------------------------------------------------------
(* Bounds of the model *)

MaxLines == 3
MaxMinCount == 2
MaxRows == 3
MaxCount == 3
MaxProc == 2
MaxTop == 2
MaxLongProc == 1
MaxNoiseRows == 2

(* Program constants *)

FanOut == 25

-----------------------------------------------------------------------------
(* Strings *)

linestrip_pattern == {" ", "/", "-", "u2013", "\n", "\t", "\""}

Whitespace == {" ", "\n", "\r", "\t"}

ending_chars == {" ", ".", "?", "!", "u00BF", "u00A1"}

RECURSIVE lstrip(_, _)
lstrip(s, chars) ==
    IF s # <<>> /\ Head(s) \in chars THEN lstrip(Tail(s), chars) ELSE s

RECURSIVE rstrip(_, _)
rstrip(s, chars) ==
    IF s # <<>> /\ s[Len(s)] \in chars
    THEN rstrip(SubSeq(s, 1, Len(s) - 1), chars)
    ELSE s

strip(s, chars) == rstrip(lstrip(s, chars), chars)

LowerChar(c) ==
    CASE c = "A" -> "a"
      [] c = "B" -> "b"
      [] c = "R" -> "r"
      [] OTHER -> c

lower(s) == [i \in 1..Len(s) |-> LowerChar(s[i])]

-----------------------------------------------------------------------------
(* Counter and DataFrame helpers *)

Row(k, v) == [key |-> k, count |-> v]

Keys(d) == {d[i].key : i \in 1..Len(d)}

CountOf(d, k) ==
    IF k \in Keys(d)
    THEN d[CHOOSE i \in 1..Len(d) : d[i].key = k].count
    ELSE 0

RECURSIVE SumCounts(_)
SumCounts(d) == IF d = <<>> THEN 0 ELSE Head(d).count + SumCounts(Tail(d))

RemoveAt(s, i) == SubSeq(s, 1, i - 1) \o SubSeq(s, i + 1, Len(s))

RECURSIVE SelectRows(_, _)
SelectRows(d, keep) ==
    IF d = <<>> THEN <<>>
    ELSE IF Head(d).key \in keep
         THEN <<Head(d)>> \o SelectRows(Tail(d), keep)
         ELSE SelectRows(Tail(d), keep)

IsSortedDesc(df) == \A i \in 1..(Len(df) - 1) : df[i].count >= df[i + 1].count

UniqueKeys(df) == \A i, j \in 1..Len(df) : df[i].key = df[j].key => i = j

(* Counter.update(iterable): one occurrence per element, new keys appended *)
CounterAdd(d, k) ==
    IF k \in Keys(d)
    THEN [i \in 1..Len(d) |->
            IF d[i].key = k THEN Row(k, d[i].count + 1) ELSE d[i]]
    ELSE Append(d, Row(k, 1))

RECURSIVE CounterUpdate(_, _)
CounterUpdate(d, elems) ==
    IF elems = <<>> THEN d
    ELSE CounterUpdate(CounterAdd(d, Head(elems)), Tail(elems))

(* Counter.most_common(): sorted(items, key=count, reverse=True), stable *)
RECURSIVE InsertDesc(_, _)
InsertDesc(sorted, r) ==
    IF sorted = <<>> THEN <<r>>
    ELSE IF Head(sorted).count >= r.count
         THEN <<Head(sorted)>> \o InsertDesc(Tail(sorted), r)
         ELSE <<r>> \o sorted

RECURSIVE most_common(_)
most_common(d) ==
    IF d = <<>> THEN <<>>
    ELSE InsertDesc(most_common(SubSeq(d, 1, Len(d) - 1)), d[Len(d)])

MaxCountOf(df) == CHOOSE m \in {df[i].count : i \in 1..Len(df)} :
                    \A i \in 1..Len(df) : df[i].count <= m

(* sort_values with ascending=True: every ordering by ascending count *)
RECURSIVE sort_values_ascending(_)
sort_values_ascending(df) ==
    IF df = <<>> THEN {<<>>}
    ELSE UNION {{rest \o <<df[i]>> : rest \in sort_values_ascending(RemoveAt(df, i))} :
                 i \in {j \in 1..Len(df) : df[j].count = MaxCountOf(df)}}

(* DataFrame.sort_values(by=[count], ascending=False) with the default     *)
(* kind="quicksort", which is not stable: every ordering by descending     *)
(* count is a possible outcome; the order among equal counts is not fixed. *)
RECURSIVE sort_values(_)
sort_values(df) ==
    IF df = <<>> THEN {<<>>}
    ELSE UNION {{<<df[i]>> \o rest : rest \in sort_values(RemoveAt(df, i))} :
                 i \in {j \in 1..Len(df) : df[j].count = MaxCountOf(df)}}

RECURSIVE SelectByFlags(_, _)
SelectByFlags(df, flags) ==
    IF df = <<>> THEN <<>>
    ELSE IF Head(flags)
         THEN <<Head(df)>> \o SelectByFlags(Tail(df), Tail(flags))
         ELSE SelectByFlags(Tail(df), Tail(flags))

RECURSIVE Distinct(_)
Distinct(s) ==
    IF s = <<>> THEN <<>>
    ELSE LET rest == Distinct(SubSeq(s, 1, Len(s) - 1))
         IN  IF \E i \in 1..Len(rest) : rest[i] = s[Len(s)] THEN rest
             ELSE Append(rest, s[Len(s)])

(* The rows of df whose entry in the key column gk is g, in frame order *)
GroupRows(df, gk, g) == SelectByFlags(df, [i \in 1..Len(df) |-> gk[i] = g])

(* Group keys in order of first appearance.  pandas orders the groups by   *)
(* key; every caller sorts the result by count afterwards, so the group    *)
(* order does not reach the result.                                        *)
GroupKeys(gk) == Distinct(gk)

(* groupby_first_sum aggregating the count with 'first' as well *)
groupby_first_sum_first_count(df, gk) ==
    LET gs == GroupKeys(gk)
    IN  [i \in 1..Len(gs) |->
            LET rows == GroupRows(df, gk, gs[i])
            IN  Row(rows[1].key, rows[1].count)]

(* .groupby(gk, as_index=False).agg({key: 'first', count: 'sum'}) *)
groupby_first_sum(df, gk) ==
    LET gs == GroupKeys(gk)
    IN  [i \in 1..Len(gs) |->
            LET rows == GroupRows(df, gk, gs[i])
            IN  Row(rows[1].key, SumCounts(rows))]

-----------------------------------------------------------------------------
(* Variant Collapser *)

(* df[sentence].str.strip(" .?!" + inverted marks), the grouping column *)
(* Sm1 stripping the end of the sentence only *)
Sm1_trailing(k) == rstrip(k, ending_chars)

Sm1(k) == strip(k, ending_chars)

Sm1_column(df) == [i \in 1..Len(df) |-> Sm1(df[i].key)]

(* df[word].str.lower(), the grouping column *)
wordlow_column(df) == [i \in 1..Len(df) |-> lower(df[i].key)]

collapse_if_only_ending_differently(df) ==
    UNION {sort_values(groupby_first_sum(s, Sm1_column(s))) : s \in sort_values(df)}

Half == [num |-> 1, den |-> 2]

(* ShareAbove comparing with >= *)
ShareAtLeast(cnt, group_count, cutoff) ==
    cnt * cutoff.den >= cutoff.num * group_count

(* share > cutoff, with share = count / group_count *)
ShareAbove(cnt, group_count, cutoff) ==
    cnt * cutoff.den > cutoff.num * group_count

(* g: the rows of one group, in frame order *)
wordcase_by_cutoff(g, cutoff) ==
    LET group_count == SumCounts(g)
        hits == {i \in 1..Len(g) :
                    /\ g[i].key = lower(g[i].key)
                    /\ ShareAbove(g[i].count, group_count, cutoff)}
        idxmax == CHOOSE i \in 1..Len(g) :
                    /\ g[i].count = MaxCountOf(g)
                    /\ \A j \in 1..(i - 1) : g[j].count < g[i].count
    IN  IF hits # {}
        THEN Row(lower(g[CHOOSE i \in hits : \A j \in hits : i <= j].key),
                 group_count)
        ELSE Row(g[idxmax].key, group_count)

(* .groupby(wordlow, as_index=False).apply(wordcase_by_cutoff, ...) *)
groupby_apply_wordcase(df, cutoff) ==
    LET gk == wordlow_column(df)
        gs == GroupKeys(gk)
    IN  [i \in 1..Len(gs) |->
            wordcase_by_cutoff(GroupRows(df, gk, gs[i]), cutoff)]

collapse_case(df, cutoff) ==
    IF cutoff = Half
    THEN UNION {sort_values(groupby_first_sum(s, wordlow_column(s))) :
                  s \in sort_values(df)}
    ELSE sort_values(groupby_apply_wordcase(df, cutoff))

-----------------------------------------------------------------------------
(* Noise Filter: the regular expressions of the two passes, by what        *)
(* re.search does on a key                                                 *)

AsciiLetters == {"a", "b", "n", "r", "s", "u", "A", "B", "R"}

AsciiDigits == {"1"}

(* \w of a str pattern: Unicode alphanumerics and the underscore *)
WordChars ==
    AsciiLetters \cup AsciiDigits \cup {"_", "u00E9", "u00DF", "u044F", "u0663"}

(* [ _\W0-9] *)
punctuation_and_numbers_class(c) ==
    c \in {" ", "_"} \/ c \notin WordChars \/ c \in AsciiDigits

(* [a-zA-Z\u00E0-\u00FC\u00C0-\u00DC]: of the non-ASCII characters of *)
(* the model only u00E9 lies in these ranges                              *)
latin_regex_class(c) == c \in AsciiLetters \cup {"u00E9"}

(* "$" matches at the end of the string and just before a final newline *)
EndPositions(k) ==
    {Len(k)} \cup (IF k # <<>> /\ k[Len(k)] = "\n" THEN {Len(k) - 1} ELSE {})

(* ^[ _\W0-9]+$ *)
punctuation_and_numbers_regex(k) ==
    \E e \in EndPositions(k) :
        e >= 1 /\ \A i \in 1..e : punctuation_and_numbers_class(k[i])

(* ^[(\[{] *)
parenthesis_start_regex(k) == k # <<>> /\ k[1] \in {"(", "[", "{"}

(* :$ *)
colon_end_regex(k) == \E e \in EndPositions(k) : e >= 1 /\ k[e] = ":"

latin_regex(k) == \E i \in 1..Len(k) : latin_regex_class(k[i])

non_latin_langs == {"ru", "ar"}

(* re.search(pattern, k) with the pattern each pass joins together *)
pattern_search(k, pass, langcode) ==
    \/ punctuation_and_numbers_regex(k)
    \/ pass = "sentences" /\ parenthesis_start_regex(k)
    \/ pass = "sentences" /\ colon_end_regex(k)
    \/ langcode \in non_latin_langs /\ latin_regex(k)

(* Counter({k: v for (k, v) in d.items() if not re.search(pattern, k)}) *)
noise_filter(d, pass, langcode) ==
    SelectByFlags(d, [i \in 1..Len(d) |->
                        ~pattern_search(d[i].key, pass, langcode)])

(* d.pop(None, None); d.pop("", None) *)
pop_empty(d) == SelectByFlags(d, [i \in 1..Len(d) |-> d[i].key # <<>>])

(* min_count_filter keeping only the counts above min_count *)
min_count_filter_strict(d, min_count) ==
    IF min_count = <<>> \/ min_count[1] = 0 THEN d
    ELSE SelectByFlags(d, [i \in 1..Len(d) |-> d[i].count > min_count[1]])

(* if not (min_count == None or min_count == 0):                           *)
(*     Counter({key: value for key, value in d.items() if value >= min_count}) *)
(* min_count is <<>> for None and <<n>> for the number n                   *)
min_count_filter(d, min_count) ==
    IF min_count = <<>> \/ min_count[1] = 0 THEN d
    ELSE SelectByFlags(d, [i \in 1..Len(d) |-> d[i].count >= min_count[1]])

(* {k.strip(): v for (k, v) in d.items()}: a key met again keeps its place *)
(* and takes the later value                                               *)
RECURSIVE strip_keys(_)
strip_keys(d) ==
    IF d = <<>> THEN <<>>
    ELSE LET rest == strip_keys(SubSeq(d, 1, Len(d) - 1))
             k == strip(d[Len(d)].key, Whitespace)
             v == d[Len(d)].count
         IN  IF k \in Keys(rest)
             THEN [i \in 1..Len(rest) |->
                     IF rest[i].key = k THEN Row(k, v) ELSE rest[i]]
             ELSE Append(rest, Row(k, v))

-----------------------------------------------------------------------------
(* Ranker/Writer *)

head(df, n) == SubSeq(df, 1, IF n < Len(df) THEN n ELSE Len(df))

(* d[~d['sentence'].isin(excluded)] *)
drop_excluded(df, excluded) ==
    SelectByFlags(df, [i \in 1..Len(df) |-> df[i].key \notin excluded])

(* top_sentences_table truncating before the exclusion list is applied *)
top_sentences_table_head_first(df, excluded, n) ==
    drop_excluded(head(df, n), excluded)

(* lines 419-426: exclusion list, then head(n_top_sentences), then to_csv *)
top_sentences_table(df, excluded, n) == head(drop_excluded(df, excluded), n)

-----------------------------------------------------------------------------
(* Chunk Reader *)

(* itertools.islice(it, batch_size) on what is left of the iterator *)
islice(lines, batch_size) ==
    SubSeq(lines, 1, IF batch_size < Len(lines) THEN batch_size ELSE Len(lines))

(* batched(iterable, batch_size): stops at the first empty batch *)
RECURSIVE batched(_, _)
batched(lines, batch_size) ==
    IF islice(lines, batch_size) = <<>> THEN <<>>
    ELSE <<islice(lines, batch_size)>>
         \o batched(SubSeq(lines, batch_size + 1, Len(lines)), batch_size)

-----------------------------------------------------------------------------
(* Tokenizer Strategy *)

RECURSIVE Flatten(_)
Flatten(ss) == IF ss = <<>> THEN <<>> ELSE Head(ss) \o Flatten(Tail(ss))

(* re.split / str.split on single separator characters: the pieces between *)
(* separators, empty pieces included                                       *)
RECURSIVE SplitOn(_, _)
SplitOn(s, seps) ==
    IF \A i \in 1..Len(s) : s[i] \notin seps THEN <<s>>
    ELSE LET i == CHOOSE j \in 1..Len(s) :
                    s[j] \in seps /\ \A h \in 1..(j - 1) : s[h] \notin seps
         IN  <<SubSeq(s, 1, i - 1)>> \o SplitOn(SubSeq(s, i + 1, Len(s)), seps)

NonEmpty(ss) == SelectSeq(ss, LAMBDA t : t # <<>>)

(* text.replace(". ", " ") *)
RECURSIVE replace_dot_space(_)
replace_dot_space(s) ==
    IF Len(s) < 2 THEN s
    ELSE IF s[1] = "." /\ s[2] = " "
         THEN <<" ">> \o replace_dot_space(SubSeq(s, 3, Len(s)))
         ELSE <<s[1]>> \o replace_dot_space(Tail(s))

token_strip_chars ==
    {".", ",", "u0027", "u2019", "\"", " ", "\t", "\n", "\r", "!", "@", "#", "$",
     "%", "^", "&", "*", "(", ")", "_", "-", "=", "+", "{", "}", ":", "<",
     ">", "?", "/", ";"}

create_word_token(text, lang_id) ==
    LET token == strip(text, token_strip_chars)
        t1 == IF lang_id \in {"en", "fr", "it", "de", "es", "el"}
              THEN [i \in 1..Len(token) |->
                      IF token[i] \in {"u2019", "u0060"} THEN "u0027" ELSE token[i]]
              ELSE token
    IN  IF token = <<>> THEN token
        ELSE IF /\ lang_id \in {"en", "nl", "af"}
                /\ Len(t1) > 2
                /\ t1[Len(t1)] = "s"
                /\ t1[Len(t1) - 1] = "u0027"
             THEN SubSeq(t1, 1, Len(t1) - 2)
             ELSE t1

(* [^\w\-\_\'\u2019\.\u0610-\u061A\u064B-\u065F]{1,}: the regex tokenizer   *)
(* splits on runs of these characters                                     *)
non_word_chars(c) == c \notin WordChars \cup {"-", "_", "u0027", "u2019", "."}

AllChars ==
    WordChars \cup token_strip_chars \cup linestrip_pattern
    \cup {"[", "u0060", "u00BF", "u00A1"}

(* A run of separators gives empty pieces here and one split in re.split;  *)
(* empty tokens are dropped either way.                                    *)
regex_tokenizer(text, lang_id) ==
    LET t == replace_dot_space(text \o <<" ">>)
        pieces == SplitOn(t, {c \in AllChars : non_word_chars(c)})
    IN  NonEmpty([i \in 1..Len(pieces) |-> create_word_token(pieces[i], lang_id)])

(* The segmentation engine behind get_spacy_pipeline(langcode) is an       *)
(* external library.  Stand-in: tokens are the maximal runs of word        *)
(* characters and hyphens; punctuation tokens are dropped (w.is_punct) and *)
(* w.text.strip("-") is applied.                                           *)
spacy_tokens(text) ==
    LET pieces == SplitOn(text, {c \in AllChars : c \notin WordChars \cup {"-"}})
    IN  NonEmpty([i \in 1..Len(pieces) |-> strip(pieces[i], {"-"})])

langs_not_in_spacy == {"ko"}

(* Which branch of tokenize_lines a run takes *)
tokenizer_branch(langcode, cfg) ==
    IF cfg.source_data_type = "tokenized" THEN "split"
    ELSE IF cfg.use_regex_tokenizer \/ langcode \in langs_not_in_spacy
         THEN "regex"
         ELSE "spacy"

(* tokenize_lines(lines, langcode, get_spacy_pipeline), flattened as       *)
(* tokenize_lines_mp's chain.from_iterable does                            *)
tokenize_lines(lines, langcode, cfg) ==
    LET ls == IF cfg.source_data_type = "text"
              THEN [i \in 1..Len(lines) |-> strip(lines[i], linestrip_pattern)]
              ELSE lines
        branch == tokenizer_branch(langcode, cfg)
    IN  Flatten([i \in 1..Len(ls) |->
            CASE branch = "split" ->
                    SplitOn(strip(ls[i], linestrip_pattern), {" "})
              [] branch = "regex" -> regex_tokenizer(ls[i], langcode)
              [] OTHER -> spacy_tokens(ls[i])])

(* int(lines_per_chunk/(n_process*25)) *)
sub_batch_size(cfg) == cfg.lines_per_chunk \div (cfg.n_process * FanOut)

-----------------------------------------------------------------------------
(* State *)

VARIABLES
    cfg,                    \* the settings (lines 31-66), fixed during a run
    run_langcodes,          \* the languages main() runs, in order
    exclude,                \* extra_sentences_to_exclude(): langcode -> sentences
    spacy_installed,        \* whether the segmentation engine can be imported
    corpus,                 \* langcode -> lines of the parsed corpus file
    parsed_exists,          \* langcode -> the parsed corpus file can be opened
    sentence_out,           \* langcode -> bld/top_sentences/<langcode>_top_sentences.csv
    word_out,               \* langcode -> bld/top_words/<langcode>_top_words.csv
    total_counts_sentences, \* bld/total_counts_sentences.csv: <<langcode, total>>
    total_counts_words,     \* bld/total_counts_words.csv: <<langcode, total>>
    pc,                     \* position of the coordinating process
    li,                     \* index into run_langcodes of the running language
    pos,                    \* lines of the corpus file read so far
    d,                      \* the running Counter, then the DataFrame
    chunks_done,
    tasks,                  \* the sub-batches of the current chunk in the pool
    consumed,               \* sub-batch results merged into d so far
    fn_in,                  \* input of a function applied on its own
    fn_out                  \* its result

vars == <<cfg, run_langcodes, exclude, spacy_installed, corpus, parsed_exists,
          sentence_out, word_out, total_counts_sentences, total_counts_words,
          pc, li, pos, d, chunks_done, tasks, consumed, fn_in, fn_out>>

inputs == <<cfg, run_langcodes, exclude, spacy_installed, corpus>>

fnvars == <<fn_in, fn_out>>

Langs == {"en", "ru"}

NoFile == [exists |-> FALSE, rows |-> <<>>]

File(rows) == [exists |-> TRUE, rows |-> rows]

langcode == run_langcodes[li]

Cutoff(n, m) == [num |-> n, den |-> m]

-----------------------------------------------------------------------------
(* Inputs *)

CorpusLines ==
    { <<"a", ".", "\n">>,
      <<"a", "!", "\n">>,
      <<" ", "a", ".", "\n">>,
      <<"A", " ", "b", "\n">>,
      <<"\n">> }

SeqsUpTo(S, n) == UNION {[1..m -> S] : m \in 0..n}

Corpora == SeqsUpTo(CorpusLines, MaxLines)

(* A corpus of one line more than p chunks of FanOut lines *)
LongCorpus(p) ==
    [i \in 1..(p * FanOut + 1) |->
        IF i % 2 = 1 THEN <<"a", ".", "\n">> ELSE <<"A", " ", "b", "\n">>]

MinCounts == {<<>>} \cup {<<n>> : n \in 0..MaxMinCount}

DefaultCfg ==
    [get_sentences |-> TRUE, get_words |-> TRUE,
     lines_per_chunk |-> MaxLines, n_process |-> 1, min_count |-> <<0>>,
     source_data_type |-> "raw", lowcase_cutoff |-> Cutoff(2, 25),
     n_top_sentences |-> MaxTop, n_top_words |-> MaxTop,
     use_regex_tokenizer |-> TRUE]

NoExclusions == [l \in {} |-> {}]

OneLang(l, c) ==
    /\ run_langcodes = <<l>>
    /\ corpus = [x \in Langs |-> IF x = l THEN c ELSE <<>>]
    /\ parsed_exists = [x \in Langs |-> x = l]

(* Sentence pass: corpora, formats, and chunk sizes or thresholds *)
InitCount ==
    /\ \E c \in Corpora : OneLang("en", c)
    /\ \E n \in 1..MaxLines, m \in MinCounts, t \in {"raw", "text"} :
         /\ n = MaxLines \/ m = <<MaxMinCount>>
         /\ cfg = [DefaultCfg EXCEPT !.get_words = FALSE,
                                     !.lines_per_chunk = n, !.min_count = m,
                                     !.source_data_type = t]
    /\ exclude = NoExclusions
    /\ spacy_installed = TRUE

(* Word pass: chunk sizes of one line and of multiples of FanOut lines,    *)
(* worker counts, and the tokenizer branches                               *)
InitWords ==
    /\ \E c \in SeqsUpTo(CorpusLines, MaxLines - 1) : OneLang("en", c)
    /\ \E p \in 1..MaxProc, n \in {1} \cup {k * FanOut : k \in 1..MaxProc},
          t \in {"raw", "tokenized"}, r \in BOOLEAN, m \in {<<0>>, <<MaxMinCount>>} :
         /\ t = "tokenized" => r
         /\ cfg = [DefaultCfg EXCEPT !.get_sentences = FALSE,
                                     !.lines_per_chunk = n,
                                     !.n_process = p,
                                     !.min_count = m,
                                     !.source_data_type = t,
                                     !.use_regex_tokenizer = r]
         /\ spacy_installed \in (IF t = "raw" /\ ~r THEN BOOLEAN ELSE {TRUE})
    /\ exclude = NoExclusions

(* Word pass over more than one chunk of sub-batches *)
InitLong ==
    /\ \E p \in 1..MaxLongProc :
         /\ OneLang("en", LongCorpus(p))
         /\ cfg = [DefaultCfg EXCEPT !.get_sentences = FALSE,
                                     !.lines_per_chunk = p * FanOut,
                                     !.n_process = p,
                                     !.lowcase_cutoff = Half]
    /\ exclude = NoExclusions
    /\ spacy_installed = TRUE

(* Raw-format sentence pass over lines that end in "\n" or in "\r\n":     *)
(* text_from_xmlfile strips linestrip_pattern, which holds no "\r"         *)
InitRaw ==
    /\ \E c \in SeqsUpTo({<<"a", ".", "\n">>, <<"a", ".", "\r", "\n">>}, MaxLines) :
         OneLang("en", c)
    /\ \E m \in {<<0>>, <<MaxMinCount>>} :
         cfg = [DefaultCfg EXCEPT !.get_words = FALSE, !.min_count = m]
    /\ exclude = NoExclusions
    /\ spacy_installed = TRUE

(* Both passes of one language with the linguistic segmenter selected and *)
(* the engine installed or not                                            *)
InitEngine ==
    /\ \E c \in SeqsUpTo({<<"a", ".", "\n">>, <<"A", " ", "b", "\n">>}, MaxLines - 1) :
         c # <<>> /\ OneLang("en", c)
    /\ cfg = [DefaultCfg EXCEPT !.lines_per_chunk = FanOut,
                                !.use_regex_tokenizer = FALSE]
    /\ spacy_installed \in BOOLEAN
    /\ exclude = NoExclusions

(* Several languages, files present or not, exclusion lists, top-N *)
InitLangs ==
    /\ run_langcodes \in {<<"en">>, <<"ru">>, <<"en", "ru">>, <<"ru", "en">>}
    /\ corpus \in [Langs -> SeqsUpTo({<<"a", ".", "\n">>, <<"A", " ", "b", "\n">>}, MaxLines - 2)]
    /\ parsed_exists \in [Langs -> BOOLEAN]
    /\ \E n \in 1..MaxTop, s \in BOOLEAN :
         cfg = [DefaultCfg EXCEPT !.get_sentences = s,
                                  !.n_top_sentences = n, !.n_top_words = n,
                                  !.source_data_type = "text"]
    /\ exclude \in {NoExclusions, [l \in {"en"} |-> {<<"a", ".">>}]}
    /\ spacy_installed = TRUE

Idle ==
    /\ sentence_out = [l \in Langs |-> NoFile]
    /\ word_out = [l \in Langs |-> NoFile]
    /\ total_counts_sentences = {}
    /\ total_counts_words = {}
    /\ li = 1
    /\ pos = 0
    /\ d = <<>>
    /\ chunks_done = 0
    /\ tasks = <<>>
    /\ consumed = 0

NoFn == [fn |-> "none"]

Init ==
    /\ InitCount \/ InitWords \/ InitLong \/ InitRaw \/ InitEngine \/ InitLangs
    /\ Idle
    /\ pc = "main"
    /\ fn_in = NoFn
    /\ fn_out = NoFile

-----------------------------------------------------------------------------
(* main() and run_one_langcode() *)

SetTotal(total_counts, l, n) ==
    {e \in total_counts : e[1] # l} \cup {<<l, n>>}

(* main(): check_langcodes, check_cwd, remove the total count files *)
Main ==
    /\ pc = "main"
    /\ total_counts_sentences' = {}
    /\ total_counts_words' = {}
    /\ li' = 1
    /\ pc' = "run"
    /\ UNCHANGED <<inputs, parsed_exists, sentence_out, word_out, pos, d,
                   chunks_done, tasks, consumed, fnvars>>

(* run_one_langcode: the parts to run *)
PassAfter(at) ==
    IF at = "run" /\ cfg.get_sentences THEN "s_check"
    ELSE IF at \in {"run", "sentences"} /\ cfg.get_words THEN "w_check"
    ELSE "lang_done"

RunOneLangcode ==
    /\ pc = "run"
    /\ pc' = PassAfter("run")
    /\ UNCHANGED <<inputs, parsed_exists, sentence_out, word_out,
                   total_counts_sentences, total_counts_words, li, pos, d,
                   chunks_done, tasks, consumed, fnvars>>

(* check_line_count(parsedfile): open() raises when the file is missing;   *)
(* nothing catches it in parsedfile_to_top_sentences, run_one_langcode or  *)
(* main                                                                    *)
SentMissingFile ==
    /\ pc = "s_check"
    /\ ~parsed_exists[langcode]
    /\ pc' = "raised"
    /\ UNCHANGED <<inputs, parsed_exists, sentence_out, word_out,
                   total_counts_sentences, total_counts_words, li, pos, d,
                   chunks_done, tasks, consumed, fnvars>>

(* SentNoLines without the early return: the pass goes on to count *)
SentNoLines_continue ==
    /\ pc = "s_check"
    /\ parsed_exists[langcode]
    /\ corpus[langcode] = <<>>
    /\ d' = <<>>
    /\ pos' = 0
    /\ chunks_done' = 0
    /\ pc' = "s_read"
    /\ UNCHANGED <<inputs, parsed_exists, sentence_out, word_out,
                   total_counts_sentences, total_counts_words, li, tasks,
                   consumed, fnvars>>

(* nlines == 0: return *)
SentNoLines ==
    /\ pc = "s_check"
    /\ parsed_exists[langcode]
    /\ corpus[langcode] = <<>>
    /\ pc' = PassAfter("sentences")
    /\ UNCHANGED <<inputs, parsed_exists, sentence_out, word_out,
                   total_counts_sentences, total_counts_words, li, pos, d,
                   chunks_done, tasks, consumed, fnvars>>

(* d = Counter(); chunks_done = 0 *)
SentBegin ==
    /\ pc = "s_check"
    /\ parsed_exists[langcode]
    /\ corpus[langcode] # <<>>
    /\ d' = <<>>
    /\ pos' = 0
    /\ chunks_done' = 0
    /\ pc' = "s_read"
    /\ UNCHANGED <<inputs, parsed_exists, sentence_out, word_out,
                   total_counts_sentences, total_counts_words, li, tasks,
                   consumed, fnvars>>

Unread == SubSeq(corpus[langcode], pos + 1, Len(corpus[langcode]))

(* The key a corpus line is counted under in the sentence pass *)
sentence_key(l) ==
    IF cfg.source_data_type # "raw" THEN strip(l, linestrip_pattern) ELSE l

(* SentReadChunk with the Counter created anew for every chunk *)
SentReadChunk_fresh ==
    /\ pc = "s_read"
    /\ Unread # <<>>
    /\ LET lines == islice(Unread, cfg.lines_per_chunk)
       IN  /\ d' = CounterUpdate(<<>>, [i \in 1..Len(lines) |-> sentence_key(lines[i])])
           /\ pos' = pos + Len(lines)
    /\ chunks_done' = chunks_done + 1
    /\ UNCHANGED <<inputs, parsed_exists, sentence_out, word_out,
                   total_counts_sentences, total_counts_words, pc, li, tasks,
                   consumed, fnvars>>

(* One iteration of the loop over chunked_reader: strip, d.update(lines) *)
SentReadChunk ==
    /\ pc = "s_read"
    /\ Unread # <<>>
    /\ LET lines == islice(Unread, cfg.lines_per_chunk)
       IN  /\ d' = CounterUpdate(d, [i \in 1..Len(lines) |-> sentence_key(lines[i])])
           /\ pos' = pos + Len(lines)
    /\ chunks_done' = chunks_done + 1
    /\ UNCHANGED <<inputs, parsed_exists, sentence_out, word_out,
                   total_counts_sentences, total_counts_words, pc, li, tasks,
                   consumed, fnvars>>

(* The reader is exhausted: the loop ends *)
SentCounted ==
    /\ pc = "s_read"
    /\ Unread = <<>>
    /\ pc' = "s_pop"
    /\ UNCHANGED <<inputs, parsed_exists, sentence_out, word_out,
                   total_counts_sentences, total_counts_words, li, pos, d,
                   chunks_done, tasks, consumed, fnvars>>

(* A step that only replaces d *)
Stage(from, to, new_d) ==
    /\ pc = from
    /\ d' = new_d
    /\ pc' = to
    /\ UNCHANGED <<inputs, parsed_exists, sentence_out, word_out,
                   total_counts_sentences, total_counts_words, li, pos,
                   chunks_done, tasks, consumed, fnvars>>

SentPopEmpty == Stage("s_pop", "s_filter", pop_empty(d))

SentNoiseFilter ==
    Stage("s_filter", "s_total", noise_filter(d, "sentences", langcode))

(* total_counts[langcode] = sum(d.values()), written to the summary file *)
SentSaveTotal ==
    /\ pc = "s_total"
    /\ total_counts_sentences' =
         SetTotal(total_counts_sentences, langcode, SumCounts(d))
    /\ pc' = "s_min"
    /\ UNCHANGED <<inputs, parsed_exists, sentence_out, word_out,
                   total_counts_words, li, pos, d, chunks_done, tasks,
                   consumed, fnvars>>

(* SentMinCount that removes nothing *)
SentMinCount_skipped == Stage("s_min", "s_strip", d)

SentMinCount == Stage("s_min", "s_strip", min_count_filter(d, cfg.min_count))

SentStrip ==
    Stage("s_strip", "s_collapse",
          IF cfg.source_data_type = "raw" THEN strip_keys(d) ELSE d)

(* pd.DataFrame(d.most_common()), collapse_if_only_ending_differently *)
SentCollapse ==
    \E out \in collapse_if_only_ending_differently(most_common(d)) :
        Stage("s_collapse", "s_write", out)

(* KeyError: no column for the language, nothing is excluded *)
excluded_sentences ==
    IF langcode \in DOMAIN exclude THEN exclude[langcode] ELSE {}

SentWrite ==
    /\ pc = "s_write"
    /\ sentence_out' =
         [sentence_out EXCEPT ![langcode] =
            File(top_sentences_table(d, excluded_sentences, cfg.n_top_sentences))]
    /\ pc' = PassAfter("sentences")
    /\ UNCHANGED <<inputs, parsed_exists, word_out, total_counts_sentences,
                   total_counts_words, li, pos, d, chunks_done, tasks,
                   consumed, fnvars>>

-----------------------------------------------------------------------------
(* parsedfile_to_top_words() *)

WordMissingFile ==
    /\ pc = "w_check"
    /\ ~parsed_exists[langcode]
    /\ pc' = "raised"
    /\ UNCHANGED <<inputs, parsed_exists, sentence_out, word_out,
                   total_counts_sentences, total_counts_words, li, pos, d,
                   chunks_done, tasks, consumed, fnvars>>

WordNoLines ==
    /\ pc = "w_check"
    /\ parsed_exists[langcode]
    /\ corpus[langcode] = <<>>
    /\ pc' = "lang_done"
    /\ UNCHANGED <<inputs, parsed_exists, sentence_out, word_out,
                   total_counts_sentences, total_counts_words, li, pos, d,
                   chunks_done, tasks, consumed, fnvars>>

WordBegin ==
    /\ pc = "w_check"
    /\ parsed_exists[langcode]
    /\ corpus[langcode] # <<>>
    /\ d' = <<>>
    /\ pos' = 0
    /\ chunks_done' = 0
    /\ tasks' = <<>>
    /\ consumed' = 0
    /\ pc' = "w_read"
    /\ UNCHANGED <<inputs, parsed_exists, sentence_out, word_out,
                   total_counts_sentences, total_counts_words, li, fnvars>>

(* tokenize_lines_mp: the sub-batches executor.map submits for one chunk *)
tokenize_lines_mp(lines) ==
    LET lines_batched == batched(lines, sub_batch_size(cfg))
    IN  [i \in 1..Len(lines_batched) |->
            [lines |-> lines_batched[i], state |-> "queued"]]

(* The next chunk is read and its sub-batches are submitted to the pool *)
WordReadChunk ==
    /\ pc = "w_read"
    /\ Unread # <<>>
    /\ LET lines == islice(Unread, cfg.lines_per_chunk)
       IN  /\ tasks' = tokenize_lines_mp(lines)
           /\ pos' = pos + Len(lines)
    /\ consumed' = 0
    /\ pc' = "w_map"
    /\ UNCHANGED <<inputs, parsed_exists, sentence_out, word_out,
                   total_counts_sentences, total_counts_words, li, d,
                   chunks_done, fnvars>>

Running == {i \in 1..Len(tasks) : tasks[i].state = "running"}

(* A free worker process takes the oldest queued sub-batch *)
WorkerStart(i) ==
    /\ pc = "w_map"
    /\ tasks[i].state = "queued"
    /\ \A j \in 1..(i - 1) : tasks[j].state # "queued"
    /\ Cardinality(Running) < cfg.n_process
    /\ tasks' = [tasks EXCEPT ![i].state = "running"]
    /\ UNCHANGED <<inputs, parsed_exists, sentence_out, word_out,
                   total_counts_sentences, total_counts_words, pc, li, pos, d,
                   chunks_done, consumed, fnvars>>

(* get_spacy_pipeline imports the engine in the worker, inside tokenize_lines *)
worker_raises ==
    tokenizer_branch(langcode, cfg) = "spacy" /\ ~spacy_installed

WorkerReturn(i) ==
    /\ pc = "w_map"
    /\ tasks[i].state = "running"
    /\ ~worker_raises
    /\ tasks' = [tasks EXCEPT ![i].state = "done"]
    /\ UNCHANGED <<inputs, parsed_exists, sentence_out, word_out,
                   total_counts_sentences, total_counts_words, pc, li, pos, d,
                   chunks_done, consumed, fnvars>>

WorkerRaise(i) ==
    /\ pc = "w_map"
    /\ tasks[i].state = "running"
    /\ worker_raises
    /\ tasks' = [tasks EXCEPT ![i].state = "failed"]
    /\ UNCHANGED <<inputs, parsed_exists, sentence_out, word_out,
                   total_counts_sentences, total_counts_words, pc, li, pos, d,
                   chunks_done, consumed, fnvars>>

(* d.update(tokenized_lines) draws the results in submission order *)
WordMerge ==
    /\ pc = "w_map"
    /\ consumed < Len(tasks)
    /\ tasks[consumed + 1].state = "done"
    /\ d' = CounterUpdate(d, tokenize_lines(tasks[consumed + 1].lines, langcode, cfg))
    /\ consumed' = consumed + 1
    /\ UNCHANGED <<inputs, parsed_exists, sentence_out, word_out,
                   total_counts_sentences, total_counts_words, pc, li, pos,
                   chunks_done, tasks, fnvars>>

(* The worker's exception is raised again by the result iterator and       *)
(* leaves parsedfile_to_top_words, run_one_langcode and main               *)
WordWorkerFailure ==
    /\ pc = "w_map"
    /\ consumed < Len(tasks)
    /\ tasks[consumed + 1].state = "failed"
    /\ pc' = "raised"
    /\ UNCHANGED <<inputs, parsed_exists, sentence_out, word_out,
                   total_counts_sentences, total_counts_words, li, pos, d,
                   chunks_done, tasks, consumed, fnvars>>

(* WordChunkDone that goes on to the next chunk without waiting for the  *)
(* results of the sub-batches                                             *)
WordChunkDone_pipelined ==
    /\ pc = "w_map"
    /\ chunks_done' = chunks_done + 1
    /\ pc' = "w_read"
    /\ UNCHANGED <<inputs, parsed_exists, sentence_out, word_out,
                   total_counts_sentences, total_counts_words, li, pos, d,
                   tasks, consumed, fnvars>>

WordChunkDone ==
    /\ pc = "w_map"
    /\ consumed = Len(tasks)
    /\ chunks_done' = chunks_done + 1
    /\ pc' = "w_read"
    /\ UNCHANGED <<inputs, parsed_exists, sentence_out, word_out,
                   total_counts_sentences, total_counts_words, li, pos, d,
                   tasks, consumed, fnvars>>

WordCounted ==
    /\ pc = "w_read"
    /\ Unread = <<>>
    /\ pc' = "w_pop"
    /\ UNCHANGED <<inputs, parsed_exists, sentence_out, word_out,
                   total_counts_sentences, total_counts_words, li, pos, d,
                   chunks_done, tasks, consumed, fnvars>>

WordPopEmpty == Stage("w_pop", "w_filter", pop_empty(d))

WordNoiseFilter == Stage("w_filter", "w_total", noise_filter(d, "words", langcode))

WordSaveTotal ==
    /\ pc = "w_total"
    /\ total_counts_words' = SetTotal(total_counts_words, langcode, SumCounts(d))
    /\ pc' = "w_min"
    /\ UNCHANGED <<inputs, parsed_exists, sentence_out, word_out,
                   total_counts_sentences, li, pos, d, chunks_done, tasks,
                   consumed, fnvars>>

WordMinCount == Stage("w_min", "w_collapse", min_count_filter(d, cfg.min_count))

WordCollapse ==
    \E out \in collapse_case(most_common(d), cfg.lowcase_cutoff) :
        Stage("w_collapse", "w_write", out)

WordWrite ==
    /\ pc = "w_write"
    /\ word_out' = [word_out EXCEPT ![langcode] = File(head(d, cfg.n_top_words))]
    /\ pc' = "lang_done"
    /\ UNCHANGED <<inputs, parsed_exists, sentence_out, total_counts_sentences,
                   total_counts_words, li, pos, d, chunks_done, tasks,
                   consumed, fnvars>>

(* End of run_one_langcode: delete_tmpfile / delete_source_data remove the *)
(* parsed file; main's loop goes on to the next language                   *)
LangDone ==
    /\ pc = "lang_done"
    /\ parsed_exists' = [parsed_exists EXCEPT ![langcode] = FALSE]
    /\ IF li < Len(run_langcodes)
       THEN li' = li + 1 /\ pc' = "run"
       ELSE li' = li /\ pc' = "done"
    /\ UNCHANGED <<inputs, sentence_out, word_out, total_counts_sentences,
                   total_counts_words, pos, d, chunks_done, tasks, consumed,
                   fnvars>>

Next ==
    \/ Main
    \/ RunOneLangcode
    \/ SentMissingFile
    \/ SentNoLines
    \/ SentBegin
    \/ SentReadChunk
    \/ SentCounted
    \/ SentPopEmpty
    \/ SentNoiseFilter
    \/ SentSaveTotal
    \/ SentMinCount
    \/ SentStrip
    \/ SentCollapse
    \/ SentWrite
    \/ WordMissingFile
    \/ WordNoLines
    \/ WordBegin
    \/ WordReadChunk
    \/ \E i \in 1..Len(tasks) : WorkerStart(i)
    \/ \E i \in 1..Len(tasks) : WorkerReturn(i)
    \/ \E i \in 1..Len(tasks) : WorkerRaise(i)
    \/ WordMerge
    \/ WordWorkerFailure
    \/ WordChunkDone
    \/ WordCounted
    \/ WordPopEmpty
    \/ WordNoiseFilter
    \/ WordSaveTotal
    \/ WordMinCount
    \/ WordCollapse
    \/ WordWrite
    \/ LangDone

Spec == Init /\ [][Next]_vars

-----------------------------------------------------------------------------
(* The collapsers, the noise filter and the ranker applied on their own to *)
(* tables drawn from bounded sets                                          *)

RowsOf(K, c) == {Row(k, v) : k \in K, v \in 1..c}

Tables(K, n, c) == {t \in SeqsUpTo(RowsOf(K, c), n) : UniqueKeys(t)}

SentenceKeys == { <<"a">>, <<"a", ".">>, <<".", "a">>, <<"b">>, <<"b", ".">> }

HiThere == <<"H", "i", " ", "t", "h", "e", "r", "e">>

HiThereTable ==
    << Row(HiThere \o <<"!">>, 5), Row(HiThere \o <<".">>, 5), Row(HiThere, 1) >>

WordKeys == { <<"a">>, <<"a", "b">>, <<"A", "b">>, <<"A", "B">> }

RunTable == << Row(<<"R", "u", "n">>, 70), Row(<<"r", "u", "n">>, 30) >>

Cutoffs == {Half, Cutoff(1, 3), Cutoff(2, 25)}

(* Counts of the noise filter's inputs: the lowest and the highest *)
NoiseCounts(c) == {1, c}

NoiseTables(K, n, c) ==
    {t \in SeqsUpTo({Row(k, v) : k \in K, v \in NoiseCounts(c)}, n) : UniqueKeys(t)}

NoiseKeys ==
    { <<"a">>, <<"u044F">>, <<"1", ".">>, <<"u0663">>, <<"u044F", "u00DF">>,
      <<"(", "u044F">>, <<"u044F", ":", "\n">>, <<"u044F", "u00E9">>,
      <<".", "\n">>, <<"u044F", "1">> }

RankKeys == { <<"A">>, <<"B">>, <<"C">> }

RankTable == << Row(<<"A">>, 100), Row(<<"B">>, 90), Row(<<"C">>, 80) >>

EndingInputs ==
    {[fn |-> "collapse_if_only_ending_differently", df |-> t] :
        t \in Tables(SentenceKeys, MaxRows, MaxCount) \cup {HiThereTable}}

CaseInputs ==
    {[fn |-> "collapse_case", df |-> t, cutoff |-> q] :
        t \in Tables(WordKeys, MaxRows, MaxCount), q \in Cutoffs}
    \cup
    {[fn |-> "collapse_case", df |-> RunTable, cutoff |-> q] :
        q \in {Half, Cutoff(1, 5)}}

NoiseInputs ==
    {[fn |-> "noise_filter", df |-> t, pass |-> p, langcode |-> l] :
        t \in NoiseTables(NoiseKeys, MaxNoiseRows, MaxCount),
        p \in {"sentences", "words"}, l \in Langs}

RankInputs ==
    {[fn |-> "top_sentences_table", df |-> t, excluded |-> x, n |-> n] :
        t \in {u \in Tables(RankKeys, MaxRows, MaxCount) \cup {RankTable} :
                 IsSortedDesc(u)},
        x \in SUBSET RankKeys, n \in 1..MaxTop}

InitFn ==
    /\ \/ fn_in \in EndingInputs
       \/ fn_in \in CaseInputs
       \/ fn_in \in NoiseInputs
       \/ fn_in \in RankInputs
    /\ fn_out = NoFile
    /\ pc = "fn"
    /\ Idle
    /\ cfg = DefaultCfg
    /\ run_langcodes = <<"en">>
    /\ exclude = NoExclusions
    /\ spacy_installed = TRUE
    /\ corpus = [l \in Langs |-> <<>>]
    /\ parsed_exists = [l \in Langs |-> FALSE]

Return(fn, results) ==
    /\ fn_in.fn = fn
    /\ ~fn_out.exists
    /\ \E out \in results : fn_out' = File(out)
    /\ UNCHANGED <<inputs, parsed_exists, sentence_out, word_out,
                   total_counts_sentences, total_counts_words, pc, li, pos, d,
                   chunks_done, tasks, consumed, fn_in>>

ApplyCollapseEnding ==
    Return("collapse_if_only_ending_differently",
           collapse_if_only_ending_differently(fn_in.df))

ApplyCollapseCase ==
    Return("collapse_case", collapse_case(fn_in.df, fn_in.cutoff))

ApplyNoiseFilter ==
    Return("noise_filter", {noise_filter(fn_in.df, fn_in.pass, fn_in.langcode)})

ApplyTopSentences ==
    Return("top_sentences_table",
           {top_sentences_table(fn_in.df, fn_in.excluded, fn_in.n)})

NextFn ==
    \/ ApplyCollapseEnding
    \/ ApplyCollapseCase
    \/ ApplyNoiseFilter
    \/ ApplyTopSentences

SpecFn == InitFn /\ [][NextFn]_vars

-----------------------------------------------------------------------------
(* Properties *)

Range(f) == {f[i] : i \in DOMAIN f}

Occurrences(seq, x) == Cardinality({i \in 1..Len(seq) : seq[i] = x})

(* The keys of all corpus lines of the running language, in file order *)
SentenceKeysOfCorpus ==
    [i \in 1..Len(corpus[langcode]) |-> sentence_key(corpus[langcode][i])]

(* C1: sentence pass.  When the last chunk has been aggregated, the count  *)
(* stored for every key is the number of corpus lines whose normalized     *)
(* form is that key, whatever the chunk size; once the empty key is        *)
(* dropped, the counts add up to the number of lines with a non-empty key. *)
C1_SentenceCountsExact ==
    /\ pc = "s_pop" =>
         /\ UniqueKeys(d)
         /\ \A k \in Keys(d) \cup Range(SentenceKeysOfCorpus) :
              CountOf(d, k) = Occurrences(SentenceKeysOfCorpus, k)
    /\ pc = "s_filter" =>
         SumCounts(d) =
           Cardinality({i \in 1..Len(corpus[langcode]) :
                          SentenceKeysOfCorpus[i] # <<>>})

(* C1 witness: several chunks were aggregated, two different lines were    *)
(* counted under one key, and an empty key was counted                     *)
C1_Witness ==
    /\ pc = "s_pop"
    /\ chunks_done >= 2
    /\ cfg.source_data_type = "text"
    /\ CountOf(d, <<"a", ".">>) >= 2
    /\ <<" ", "a", ".", "\n">> \in Range(corpus[langcode])
    /\ CountOf(d, <<>>) >= 1

(* The chunk the word pass is working on *)
CurrentChunk ==
    SubSeq(corpus[langcode], chunks_done * cfg.lines_per_chunk + 1, pos)

(* C2: word pass.  Every line of a chunk is in exactly one sub-batch, and  *)
(* when the last chunk has been merged every word has the count it has in  *)
(* the tokenization of the whole corpus, for every chunk size >= 1 and     *)
(* every worker count >= 1.                                                *)
C2_WordCountsExact ==
    /\ pc = "w_map" =>
         Flatten([i \in 1..Len(tasks) |-> tasks[i].lines]) = CurrentChunk
    /\ pc = "w_pop" =>
         LET all == tokenize_lines(corpus[langcode], langcode, cfg)
         IN  \A k \in Keys(d) \cup Range(all) :
               CountOf(d, k) = Occurrences(all, k)

(* C3: in both passes no key leaves the running count mapping and no count *)
(* decreases while chunks are being aggregated; the min_count step removes *)
(* exactly the keys whose count is below min_count, keeps every other key  *)
(* with its count, and removes nothing when min_count is None or 0.        *)
C3_PruneOnlyAfterLastChunk ==
    [][ /\ pc \in {"s_read", "w_read", "w_map"} =>
             \A k \in Keys(d) : CountOf(d', k) >= CountOf(d, k)
        /\ pc \in {"s_min", "w_min"} =>
             /\ Keys(d') =
                  {k \in Keys(d) :
                     ~(/\ cfg.min_count # <<>>
                       /\ CountOf(d, k) < cfg.min_count[1])}
             /\ \A k \in Keys(d') : CountOf(d', k) = CountOf(d, k)
             /\ UniqueKeys(d')
      ]_vars

(* C3 witness: after several chunks the threshold removed a key and kept   *)
(* another (the total was saved before the threshold was applied)          *)
C3_Witness ==
    /\ pc = "s_strip"
    /\ chunks_done >= 2
    /\ d # <<>>
    /\ \E e \in total_counts_sentences : e[1] = langcode /\ e[2] > SumCounts(d)

(* Languages whose parsed corpus file has zero lines *)
HasTotal(totals, l) == \E e \in totals : e[1] = l

(* C9: a language whose parsed corpus has zero lines never gets a ranked   *)
(* output file nor an entry in either total-count table, and neither pass  *)
(* raises on a parsed file that exists with zero lines.                    *)
C9_EmptyCorpusNoOutput ==
    /\ \A l \in Langs :
         corpus[l] = <<>> =>
            /\ ~sentence_out[l].exists
            /\ ~word_out[l].exists
            /\ ~HasTotal(total_counts_sentences, l)
            /\ ~HasTotal(total_counts_words, l)
    /\ pc = "raised" => ~(parsed_exists[langcode] /\ corpus[langcode] = <<>>)

(* C9 witness: both passes have returned on an existing file of zero lines *)
C9_Witness ==
    /\ pc = "lang_done"
    /\ parsed_exists[langcode]
    /\ corpus[langcode] = <<>>
    /\ cfg.get_sentences
    /\ cfg.get_words

(* C10: when the run has ended, every language that comes after the       *)
(* current one in run_langcodes and whose corpus file is present with at   *)
(* least one line has its sentence table written, also when the run ended  *)
(* on a missing corpus file.                                               *)
C10_LaterLanguagesProcessed ==
    pc \in {"raised", "done"} =>
        \A i \in 1..Len(run_langcodes) :
            (/\ i > li
             /\ parsed_exists[run_langcodes[i]]
             /\ corpus[run_langcodes[i]] # <<>>
             /\ cfg.get_sentences) =>
                sentence_out[run_langcodes[i]].exists

(* C11: when the run of a language has ended by raising, neither the      *)
(* sentence table nor the word table of that language has been written.    *)
C11_NoOutputOnFatal ==
    pc = "raised" =>
        /\ ~sentence_out[langcode].exists
        /\ ~word_out[langcode].exists

(* Number of corpus lines that are k after str.strip() *)
NormalizedOccurrences(k) ==
    Cardinality({i \in 1..Len(corpus[langcode]) :
                    strip(corpus[langcode][i], Whitespace) = k})

MinCountValue == IF cfg.min_count = <<>> THEN 0 ELSE cfg.min_count[1]

EngineMissing(l) ==
    /\ cfg.get_words
    /\ tokenizer_branch(l, cfg) = "spacy"
    /\ ~spacy_installed

(* C15: a run for a language that uses the linguistic segmenter whose      *)
(* engine is missing reads no chunk, dispatches no sub-batch and writes no *)
(* output table and no total-count entry for that language.                *)
C15_FailFastOnMissingEngine ==
    (EngineMissing(langcode) /\ pc # "main") =>
        /\ pos = 0
        /\ tasks = <<>>
        /\ ~sentence_out[langcode].exists
        /\ ~word_out[langcode].exists
        /\ ~HasTotal(total_counts_sentences, langcode)
        /\ ~HasTotal(total_counts_words, langcode)

(* The keys the pass counts, one per occurrence, from the whole corpus *)
PassKeys(pass) ==
    IF pass = "sentences" THEN SentenceKeysOfCorpus
    ELSE tokenize_lines(corpus[langcode], langcode, cfg)

KeyCount(pass, k) == Occurrences(PassKeys(pass), k)

(* The keys that are not empty and pass the noise filter *)
NoiseSurvivors(pass) ==
    {k \in Range(PassKeys(pass)) :
        k # <<>> /\ ~pattern_search(k, pass, langcode)}

(* Of these, the keys whose own count is at least min_count *)
AboveFloor(pass) ==
    {k \in NoiseSurvivors(pass) : KeyCount(pass, k) >= MinCountValue}

CollapseKey(pass, k) == IF pass = "sentences" THEN Sm1(k) ELSE lower(k)

RECURSIVE SumKeyCounts(_, _)
SumKeyCounts(pass, S) ==
    IF S = {} THEN 0
    ELSE LET k == CHOOSE x \in S : TRUE
         IN  KeyCount(pass, k) + SumKeyCounts(pass, S \ {k})

(* Every row carries the summed counts of the members of its group *)
RowsSumMembers(pass, rows, members) ==
    \A i \in 1..Len(rows) :
        rows[i].count =
            SumKeyCounts(pass, {k \in members :
                CollapseKey(pass, k) = CollapseKey(pass, rows[i].key)})

(* The collapsed table has a row for exactly the groups of the members *)
GroupsAre(pass, rows, members) ==
    {CollapseKey(pass, rows[i].key) : i \in 1..Len(rows)} =
        {CollapseKey(pass, k) : k \in members}

(* The sentence pass of the language has written its table from keys that *)
(* the final strip leaves alone; the word pass has written its table from  *)
(* sub-batches of at least one line                                        *)
SentenceTableWritten ==
    /\ pc \in {"w_check", "lang_done"}
    /\ sentence_out[langcode].exists
    /\ cfg.source_data_type # "raw"

WordTableWritten ==
    /\ pc = "lang_done"
    /\ word_out[langcode].exists
    /\ sub_batch_size(cfg) >= 1

SentencesCollapsed == pc = "s_write" /\ cfg.source_data_type # "raw"

WordsCollapsed == pc = "w_write" /\ sub_batch_size(cfg) >= 1

-----------------------------------------------------------------------------
(* Properties of the functions applied on their own *)

Collapsed ==
    /\ fn_out.exists
    /\ fn_in.fn \in {"collapse_if_only_ending_differently", "collapse_case"}

(* The grouping key of a surface form under the function applied *)
GroupingKey(k) ==
    IF fn_in.fn = "collapse_case" THEN lower(k) ELSE Sm1(k)

(* Indices of the input rows in the group of surface form k *)
Members(k) ==
    {j \in 1..Len(fn_in.df) : GroupingKey(fn_in.df[j].key) = GroupingKey(k)}

SumOver(df, idx) == SumCounts(SelectByFlags(df, [j \in 1..Len(df) |-> j \in idx]))

(* Members of the group of k with the highest individual count *)
TopMembers(k) ==
    {j \in Members(k) : \A h \in Members(k) : fn_in.df[h].count <= fn_in.df[j].count}

(* C4: collapse conservation.  For both collapsers and both paths of       *)
(* collapse_case the output counts add up to the input counts, the output  *)
(* has exactly one row per distinct grouping key, each row carries the sum *)
(* of its group, and the output is sorted by count descending.             *)
C4_CollapseConservation ==
    Collapsed =>
        LET out == fn_out.rows
        IN  /\ SumCounts(out) = SumCounts(fn_in.df)
            /\ Len(out) =
                 Cardinality({GroupingKey(k) : k \in Keys(fn_in.df)})
            /\ {GroupingKey(out[i].key) : i \in 1..Len(out)} =
                 {GroupingKey(k) : k \in Keys(fn_in.df)}
            /\ \A i \in 1..Len(out) :
                 out[i].count = SumOver(fn_in.df, Members(out[i].key))
            /\ IsSortedDesc(out)

(* C4 witness: three case variants with the highest count each were        *)
(* collapsed into one row on the cutoff < 0.5 path                         *)
C4_Witness ==
    /\ Collapsed
    /\ Len(fn_in.df) = 3
    /\ Len(fn_out.rows) = 1
    /\ fn_in.fn = "collapse_case"
    /\ fn_in.cutoff # Half
    /\ fn_out.rows[1].count = 3 * MaxCount

(* C5: sentence collapse keeps, for every group, the member with the       *)
(* highest count, and among several members with the highest count the one *)
(* that comes first in the input table.                                    *)
C5_TieFirstEncountered ==
    (fn_out.exists /\ fn_in.fn = "collapse_if_only_ending_differently") =>
        \A i \in 1..Len(fn_out.rows) :
            LET top == TopMembers(fn_out.rows[i].key)
                first == CHOOSE j \in top : \A h \in top : j <= h
            IN  fn_out.rows[i].key = fn_in.df[first].key

(* C6: word case collapse.  A group whose lowercase member has a share of  *)
(* the group's count strictly above the cutoff gets the lowercase form;    *)
(* any other group gets a member with the highest individual count; the    *)
(* row carries the group's total.  {Run: 70, run: 30} gives run with       *)
(* cutoff 0.2 and Run with cutoff 0.5, both with count 100.                *)
C6_CaseCutoffRule ==
    (fn_out.exists /\ fn_in.fn = "collapse_case") =>
        /\ \A i \in 1..Len(fn_out.rows) :
             LET r == fn_out.rows[i]
                 total == SumOver(fn_in.df, Members(r.key))
                 low == {j \in Members(r.key) :
                            fn_in.df[j].key = lower(r.key)}
             IN  /\ r.count = total
                 /\ IF \E j \in low :
                         fn_in.df[j].count * fn_in.cutoff.den
                           > fn_in.cutoff.num * total
                    THEN r.key = lower(r.key)
                    ELSE r.key \in {fn_in.df[j].key : j \in TopMembers(r.key)}
        /\ (fn_in.df = RunTable /\ fn_in.cutoff = Cutoff(1, 5)) =>
             fn_out.rows = <<Row(<<"r", "u", "n">>, 100)>>
        /\ (fn_in.df = RunTable /\ fn_in.cutoff = Half) =>
             fn_out.rows = <<Row(<<"R", "u", "n">>, 100)>>

(* C6 witness: a lowercase member with a share exactly at the cutoff lost  *)
(* to the highest-count member                                             *)
C6_Witness ==
    /\ fn_out.exists
    /\ fn_in.fn = "collapse_case"
    /\ fn_in.cutoff = Cutoff(1, 3)
    /\ fn_in.df = <<Row(<<"a", "b">>, 1), Row(<<"A", "b">>, 2)>>
    /\ fn_out.rows = <<Row(<<"A", "b">>, 3)>>

(* The character classes the noise filter is described with *)
Letters == AsciiLetters \cup {"u00E9", "u00DF", "u044F"}

LatinLetters == AsciiLetters \cup {"u00E9", "u00DF"}

Digits == {"1", "u0663"}

(* The key without its line terminator *)
Content(k) == rstrip(k, {"\n"})

OnlyPunctuationDigitsSpace(k) ==
    k # <<>> /\ \A i \in 1..Len(k) : k[i] \notin Letters \/ k[i] \in Digits

StartsWithOpeningBracket(k) == k # <<>> /\ k[1] \in {"(", "[", "{"}

EndsWithColon(k) == Content(k) # <<>> /\ Content(k)[Len(Content(k))] = ":"

ContainsLatinLetter(k) == \E i \in 1..Len(k) : k[i] \in LatinLetters

(* C7: the noise filter removes a key if and only if it consists solely of *)
(* punctuation, digits and whitespace, or (sentences) starts with an       *)
(* opening bracket, or (sentences) ends with a colon, or (non-Latin-script *)
(* language) contains a Latin letter; a key that stays keeps its count.    *)
C7_NoiseFilterExact ==
    (fn_out.exists /\ fn_in.fn = "noise_filter") =>
        /\ \A i \in 1..Len(fn_in.df) :
             LET k == fn_in.df[i].key
             IN  (k \notin Keys(fn_out.rows)) <=>
                   \/ OnlyPunctuationDigitsSpace(k)
                   \/ fn_in.pass = "sentences" /\ StartsWithOpeningBracket(k)
                   \/ fn_in.pass = "sentences" /\ EndsWithColon(k)
                   \/ fn_in.langcode \in non_latin_langs /\ ContainsLatinLetter(k)
        /\ \A k \in Keys(fn_out.rows) :
             CountOf(fn_out.rows, k) = CountOf(fn_in.df, k)

(* Number of rows up to row j that are not excluded *)
RankAmongKept(j) ==
    Cardinality({h \in 1..j : fn_in.df[h].key \notin fn_in.excluded})

(* C8: the written sentence table is the first min(N, number of rows not   *)
(* excluded) rows of the collapsed table that are not excluded, in the     *)
(* table's order; [A:100, B:90, C:80] with N = 2 and A excluded gives      *)
(* [B:90, C:80].                                                           *)
C8_ExclusionBeforeTruncation ==
    (fn_out.exists /\ fn_in.fn = "top_sentences_table") =>
        LET kept == RankAmongKept(Len(fn_in.df))
        IN  /\ Len(fn_out.rows) = (IF fn_in.n < kept THEN fn_in.n ELSE kept)
            /\ \A j \in 1..Len(fn_in.df) :
                 (fn_in.df[j].key \notin fn_in.excluded
                  /\ RankAmongKept(j) <= fn_in.n) =>
                    fn_out.rows[RankAmongKept(j)] = fn_in.df[j]
            /\ IsSortedDesc(fn_out.rows)
            /\ (fn_in.df = RankTable /\ fn_in.excluded = {<<"A">>} /\ fn_in.n = 2) =>
                 fn_out.rows = <<Row(<<"B">>, 90), Row(<<"C">>, 80)>>

(* C8 witness: the example, excluding the top row promotes the third row *)
C8_Witness ==
    /\ fn_out.exists
    /\ fn_in.fn = "top_sentences_table"
    /\ fn_in.df = RankTable
    /\ fn_in.excluded = {<<"A">>}
    /\ fn_in.n = 2
    /\ fn_out.rows = <<Row(<<"B">>, 90), Row(<<"C">>, 80)>>

(* The sentence without the characters of ending_chars at its end, and at *)
(* both its ends                                                           *)
TrailingStripped(k) == rstrip(k, ending_chars)

BothEndsStripped(k) == lstrip(rstrip(k, ending_chars), ending_chars)

EndingCollapsed ==
    fn_out.exists /\ fn_in.fn = "collapse_if_only_ending_differently"

UniqueTopPerGroup(df) ==
    \A j \in 1..Len(df) :
        Cardinality({h \in 1..Len(df) :
            /\ lower(df[h].key) = lower(df[j].key)
            /\ \A g \in 1..Len(df) :
                 lower(df[g].key) = lower(df[j].key) =>
                    df[g].count <= df[h].count}) = 1

FastPathApplied ==
    /\ fn_out.exists
    /\ fn_in.fn = "collapse_case"
    /\ fn_in.cutoff = Half
    /\ UniqueTopPerGroup(fn_in.df)

(* C17: for a table in which every lowercase group has a unique            *)
(* highest-count member, the table returned by the cutoff == 0.5 path of   *)
(* collapse_case is a table the general rule (groupby.apply of             *)
(* wordcase_by_cutoff, sorted) returns with cutoff 0.5, and the two paths  *)
(* have the same possible results.                                         *)
C17_FastPathEqualsGeneralRule ==
    FastPathApplied =>
        /\ fn_out.rows \in sort_values(groupby_apply_wordcase(fn_in.df, Half))
        /\ collapse_case(fn_in.df, Half) =
             sort_values(groupby_apply_wordcase(fn_in.df, Half))

(* C17 witness: a group of three case variants whose unique highest-count  *)
(* member is not the lowercase form went through the cutoff == 0.5 path    *)
C17_Witness ==
    /\ FastPathApplied
    /\ Len(fn_in.df) = 3
    /\ Len(fn_out.rows) = 1
    /\ fn_out.rows[1].key # lower(fn_out.rows[1].key)
    /\ \E i \in 1..3 : fn_in.df[i].key = lower(fn_in.df[i].key)

====
